---- MODULE Spec2Model ----
(***************************************************************************)
(* A model of the GPS L1 positioning pipeline: the per-line RTCM reader,   *)
(* the message decoders (1019, 1074, 1002), the per-PRN history store, the *)
(* satellite series builder, the ECI/ECEF propagation stages, the epoch    *)
(* gather of the position solver and the file_input_mode driver.           *)
(*                                                                         *)
(* Floating-point values are modelled by integers: pseudoranges are exact  *)
(* millimetres, times are the uint32 values of the source, and the six     *)
(* Keplerian elements of an ephemeris are tagged integers (the decoder     *)
(* scalings are applied to the tags by the operators below).  A satellite  *)
(* position is the pair of the elements and the time offset it was         *)
(* propagated from; the all-zero position of a zero-initialised array is   *)
(* the value NoPos.                                                        *)
(***************************************************************************)
EXTENDS Integers, Sequences, FiniteSets, TLC

\* ------------------------------------------------------------------ bounds
\* Table capacities, scaled down from the source (MAX_SAT is 32 there);
\* MAX_SAT is at least MIN_SATS, so that an epoch can be solved.
MAX_SAT == 4
MAX_CELL == 4
MAX_EPOCHS == 3
MAX_EPH_HISTORY == 3
\* Capacity of the solver's epoch list (100000 in the source).
MAX_UNIQUE_EPOCHS == 3
\* Longest input stream (lines of one file).
MaxLines == 4

\* --------------------------------------------------------------- constants
SPEED_OF_LIGHT == 299792458
SecondsPerWeek == 604800
MsPerSecond == 1000
MIN_SATS == 4

Absent == -1          \* a "<key>=" substring that the line does not hold
NoIdx == -1           \* best_idx = -1 of find_closest_eph_idx
NotReturned == -1     \* file_input_mode has not returned yet

PRNS == 1..MAX_SAT
SatIdx == 0..(MAX_SAT - 1)
CellIdx == 0..(MAX_CELL - 1)
EpochIdx == 0..(MAX_EPOCHS - 1)
EphIdx == 0..(MAX_EPH_HISTORY - 1)

\* ------------------------------------------------------ zero-initialised C
ZeroArr(S) == [i \in S |-> 0]

\* rtcm_1019_ephemeris_t eph = {0}
ZeroEph ==
  [ satellite_id |-> 0, gps_toe |-> 0,
    gps_wn |-> 0, week_number |-> 0, gps_fit_interval |-> 0,
    gps_m0 |-> 0, gps_eccentricity |-> 0, gps_sqrt_a |-> 0,
    gps_omega0 |-> 0, gps_i0 |-> 0, gps_omega |-> 0,
    mean_anomaly |-> 0, eccentricity |-> 0, semi_major_axis |-> 0,
    right_ascension_of_ascending_node |-> 0, inclination |-> 0,
    argument_of_periapsis |-> 0 ]

\* rtcm_1074_msm4_t msm4 = {0}
ZeroMsm4 ==
  [ gps_epoch_time |-> 0, time_of_pseudorange |-> 0,
    n_sat |-> 0, n_cell |-> 0,
    cell_prn |-> ZeroArr(CellIdx), cell_sig |-> ZeroArr(CellIdx),
    prn |-> ZeroArr(SatIdx),
    pseudorange_integer |-> ZeroArr(SatIdx),
    pseudorange_mod_1s |-> ZeroArr(SatIdx),
    pseudorange_fine |-> ZeroArr(CellIdx),
    pseudorange |-> ZeroArr(SatIdx),
    phase_range |-> ZeroArr(CellIdx),
    lock_time |-> ZeroArr(CellIdx),
    cnr |-> ZeroArr(CellIdx) ]

\* rtcm_1002_msm1_t msm1 = {0}
ZeroMsm1 ==
  [ time_of_week |-> 0, num_satellites |-> 0,
    svs |-> ZeroArr(SatIdx), remainders |-> ZeroArr(SatIdx),
    ambiguities |-> ZeroArr(SatIdx), pseudoranges |-> ZeroArr(SatIdx) ]

\* ------------------------------------------------------------- input lines
\* A text line is the record of the "<key>=<value>" tokens it holds.  kind
\* "skip" is a line whose first character is newline, '#', NUL, blank or tab.
\* A scalar token that the line does not hold is Absent; an indexed token
\* (PRN_01, DF397_01, CELLSIG_01, ...) is held iff its index is within the
\* line's token list.
NoLine ==
  [ kind |-> "skip", DF002 |-> Absent,
    DF009 |-> Absent, DF093 |-> Absent, DF076 |-> Absent, DF137 |-> Absent,
    DF088 |-> Absent, DF090 |-> Absent, DF092 |-> Absent,
    DF095 |-> Absent, DF097 |-> Absent, DF099 |-> Absent,
    DF004 |-> Absent, NSat |-> Absent, NCell |-> Absent,
    PRN |-> << >>, DF397 |-> << >>, DF398 |-> << >>, cells |-> << >>,
    DF006 |-> Absent, sats |-> << >> ]

\* A 1019 line for satellite prn with time of ephemeris toe; k sets the
\* values of DF088, DF090, DF092, DF095, DF097 and DF099 of this issue,
\* each field to a value of its own; the week number DF076 is 200 and the
\* fit interval flag DF137 is 1.
Line1019(prn, toe, k) ==
  [NoLine EXCEPT !.kind = "msg", !.DF002 = 1019,
                 !.DF009 = prn, !.DF093 = toe,
                 !.DF076 = 200, !.DF137 = 1,
                 !.DF088 = k, !.DF090 = k + 10, !.DF092 = k + 20,
                 !.DF095 = k + 30, !.DF097 = k + 40, !.DF099 = k + 50]

\* A 1074 line: epoch time t, satellites prns with rough ranges df397 and
\* df398, and the cell list (CELLPRN, CELLSIG, DF400..DF403 per cell).
Line1074(t, prns, df397, df398, cells) ==
  [NoLine EXCEPT !.kind = "msg", !.DF002 = 1074, !.DF004 = t,
                 !.NSat = Len(prns), !.NCell = Len(cells),
                 !.PRN = prns, !.DF397 = df397, !.DF398 = df398,
                 !.cells = cells]

Cell(prn, sig, fine) ==
  [ CELLPRN |-> prn, CELLSIG |-> sig, DF400 |-> fine,
    DF401 |-> fine + 1, DF402 |-> fine + 2, DF403 |-> fine + 3 ]

\* A 1002 line: time of week t and one (DF009, DF014, DF011) triple per SV.
Line1002(t, sats) ==
  [NoLine EXCEPT !.kind = "msg", !.DF002 = 1002, !.DF004 = t,
                 !.DF006 = Len(sats), !.sats = sats]

Sv(prn, amb, rem) == [ DF009 |-> prn, DF014 |-> amb, DF011 |-> rem ]

\* A message line of another type (e.g. 1005, 1077).
LineOther(n) == [NoLine EXCEPT !.kind = "msg", !.DF002 = n]

\* A message line that holds no "DF002=" token.
LineNoType == [NoLine EXCEPT !.kind = "msg"]

\* ---------------------------------------------------------------- decoders
\* EXTRACT(field, format, target): a missing field leaves the target as is.
EXTRACT(v, target) == IF v = Absent THEN target ELSE v

\* A decoder that copies the raw value.
Unscaled(v) == v

\* The "x PI" scaling of the angular fields, "x 2^-33" of the eccentricity
\* and the squaring of sqrt(A): the derived element is written 10 v + s for
\* raw value v, with s = 1 for v PI, s = 2 for v 2^-33 and s = 3 for v v.
\* Zero stays zero.
TimesPi(v) == IF v = 0 THEN 0 ELSE 10 * v + 1
TimesTwoToMinus33(v) == IF v = 0 THEN 0 ELSE 10 * v + 2
Squared(v) == IF v = 0 THEN 0 ELSE 10 * v + 3

parse_rtcm_1019(line, eph) ==
  LET e0 == [eph EXCEPT !.gps_wn = EXTRACT(line.DF076, @)]
      e1 == [e0  EXCEPT !.satellite_id = EXTRACT(line.DF009, @),
                        !.week_number = e0.gps_wn,
                        !.gps_m0 = EXTRACT(line.DF088, @),
                        !.gps_eccentricity = EXTRACT(line.DF090, @),
                        !.gps_sqrt_a = EXTRACT(line.DF092, @),
                        !.gps_toe = EXTRACT(line.DF093, @),
                        !.gps_omega0 = EXTRACT(line.DF095, @),
                        !.gps_i0 = EXTRACT(line.DF097, @),
                        !.gps_omega = EXTRACT(line.DF099, @)]
  IN [e1 EXCEPT !.mean_anomaly = TimesPi(e1.gps_m0),
                !.eccentricity = TimesTwoToMinus33(e1.gps_eccentricity),
                !.semi_major_axis = Squared(e1.gps_sqrt_a),
                !.right_ascension_of_ascending_node = TimesPi(e1.gps_omega0),
                !.inclination = TimesPi(e1.gps_i0),
                !.argument_of_periapsis = TimesPi(e1.gps_omega),
                !.gps_wn = EXTRACT(line.DF137, @)]

\* Pseudorange in millimetres: c * (integer_ms * 1e-3) + mod1s + fine.
compute_pseudorange(integer_ms, mod1s_sec, fine_sec) ==
  SPEED_OF_LIGHT * integer_ms + mod1s_sec + fine_sec

\* amb * (c / 1000) + rem, in millimetres.
compute_pseudorange_msm1(amb, rem) == SPEED_OF_LIGHT * amb + rem

\* Indexed token `key_%02d` (i + 1): held iff i + 1 is within the list.
Held(list, i) == i + 1 <= Len(list)

\* Step 5 of parse_rtcm_1074: first pass over the cells, keeping CELLPRN and
\* the signal flag of the cells whose CELLSIG is "1C".
RECURSIVE Step5(_, _, _, _)
Step5(line, m, i, l1) ==
  IF i >= m.n_cell THEN m
  ELSE IF Held(line.cells, i) /\ line.cells[i + 1].CELLSIG = "1C"
       THEN Step5(line,
                  [m EXCEPT !.cell_prn[l1] = EXTRACT(line.cells[i + 1].CELLPRN, 0),
                            !.cell_sig[l1] = 1],
                  i + 1, l1 + 1)
       ELSE Step5(line, m, i + 1, l1)

\* A second pass that stores each "1C" cell at its input index.
RECURSIVE Step6AtInputIndex(_, _, _, _)
Step6AtInputIndex(line, m, i, l1) ==
  IF i >= m.n_cell THEN [m EXCEPT !.n_cell = l1]
  ELSE IF Held(line.cells, i) /\ line.cells[i + 1].CELLSIG = "1C"
       THEN LET c == line.cells[i + 1]
            IN Step6AtInputIndex(line,
                     [m EXCEPT !.cell_prn[i] = EXTRACT(c.CELLPRN, 0),
                               !.cell_sig[i] = 1,
                               !.pseudorange_fine[i] = EXTRACT(c.DF400, @),
                               !.phase_range[i] = EXTRACT(c.DF401, @),
                               !.lock_time[i] = EXTRACT(c.DF402, @),
                               !.cnr[i] = EXTRACT(c.DF403, @)],
                     i + 1, l1 + 1)
       ELSE Step6AtInputIndex(line, m, i + 1, l1)

\* Step 6: second pass, harvesting DF400..DF403 of each "1C" cell at the
\* L1 cell index; ends by rewriting n_cell to the L1-only count.
RECURSIVE Step6(_, _, _, _)
Step6(line, m, i, l1) ==
  IF i >= m.n_cell THEN [m EXCEPT !.n_cell = l1]
  ELSE IF Held(line.cells, i) /\ line.cells[i + 1].CELLSIG = "1C"
       THEN LET c == line.cells[i + 1]
            IN Step6(line,
                     [m EXCEPT !.cell_prn[l1] = EXTRACT(c.CELLPRN, 0),
                               !.cell_sig[l1] = 1,
                               !.pseudorange_fine[l1] = EXTRACT(c.DF400, @),
                               !.phase_range[l1] = EXTRACT(c.DF401, @),
                               !.lock_time[l1] = EXTRACT(c.DF402, @),
                               !.cnr[l1] = EXTRACT(c.DF403, @)],
                     i + 1, l1 + 1)
       ELSE Step6(line, m, i + 1, l1)

\* Step 7: the pseudorange array, indexed by the L1 cell index.
Step7(m) ==
  [m EXCEPT !.pseudorange =
     [i \in SatIdx |->
        IF i < m.n_cell
        THEN IF m.cell_prn[i] > 0 /\ m.cell_sig[i] = 1
             THEN compute_pseudorange(m.pseudorange_integer[i],
                                      m.pseudorange_mod_1s[i],
                                      m.pseudorange_fine[i])
             ELSE -1
        ELSE m.pseudorange[i]]]

parse_rtcm_1074(line, msm4) ==
  LET m1 == [msm4 EXCEPT !.gps_epoch_time = EXTRACT(line.DF004, @)]
      m2 == [m1 EXCEPT !.time_of_pseudorange = m1.gps_epoch_time,
                       !.n_sat = EXTRACT(line.NSat, @),
                       !.n_cell = EXTRACT(line.NCell, @)]
      m3 == [m2 EXCEPT
               !.prn = [i \in SatIdx |->
                          IF i < m2.n_sat /\ Held(line.PRN, i)
                          THEN line.PRN[i + 1] ELSE @[i]],
               !.pseudorange_integer = [i \in SatIdx |->
                          IF i < m2.n_sat /\ Held(line.DF397, i)
                          THEN line.DF397[i + 1] ELSE @[i]],
               !.pseudorange_mod_1s = [i \in SatIdx |->
                          IF i < m2.n_sat /\ Held(line.DF398, i)
                          THEN line.DF398[i + 1] ELSE @[i]]]
  IN Step7(Step6(line, Step5(line, m3, 0, 0), 0, 0))

\* The writes of parse_rtcm_1074 that fall outside the record's arrays:
\* steps 3 and 4 run i up to n_sat - 1 over arrays of MAX_SAT entries,
\* steps 5 and 6 run the L1 cell index over arrays of MAX_CELL entries, and
\* step 7 runs it over pseudorange, of MAX_SAT entries.
Overrun1074(line) ==
  LET n_sat == EXTRACT(line.NSat, 0)
      n_cell == EXTRACT(line.NCell, 0)
      l1 == Cardinality({ i \in 0..(n_cell - 1) :
                            Held(line.cells, i) /\ line.cells[i + 1].CELLSIG = "1C" })
  IN { << "prn", i >> : i \in { j \in MAX_SAT..(n_sat - 1) : Held(line.PRN, j) } }
     \cup { << "pseudorange_integer", i >> :
              i \in { j \in MAX_SAT..(n_sat - 1) : Held(line.DF397, j) } }
     \cup { << "pseudorange_mod_1s", i >> :
              i \in { j \in MAX_SAT..(n_sat - 1) : Held(line.DF398, j) } }
     \cup { << a, i >> : a \in { "cell_prn", "cell_sig", "pseudorange_fine",
                                 "phase_range", "lock_time", "cnr" },
                        i \in MAX_CELL..(l1 - 1) }
     \cup { << "pseudorange", i >> : i \in MAX_SAT..(l1 - 1) }

\* pseudorange_fine follows pseudorange_mod_1s in rtcm_1074_msm4_t: a DF398
\* written at pseudorange_mod_1s[MAX_SAT + k] may land in
\* pseudorange_fine[k], where it stays unless step 6 writes L1 cell k.
StrayMod1s(line, m) ==
  [m EXCEPT !.pseudorange_fine =
     [k \in CellIdx |->
        IF << "pseudorange_mod_1s", MAX_SAT + k >> \in Overrun1074(line)
           /\ k >= m.n_cell
        THEN line.DF398[MAX_SAT + k + 1] ELSE @[k]]]

\* What parse_rtcm_1074 may leave in the record: the writes within the
\* arrays, with the out-of-array writes lost or landed in the next member.
parse_rtcm_1074_outcomes(line, msm4) ==
  { parse_rtcm_1074(line, msm4), StrayMod1s(line, parse_rtcm_1074(line, msm4)) }

\* The writes of parse_rtcm_1002 outside svs, remainders, ambiguities and
\* pseudoranges, all of MAX_SAT entries.
Overrun1002(line) ==
  LET n == EXTRACT(line.DF006, 0)
  IN { << a, i >> : a \in { "svs", "remainders", "ambiguities" },
                    i \in { j \in MAX_SAT..(n - 1) : Held(line.sats, j) } }
     \cup { << "pseudoranges", i >> : i \in MAX_SAT..(n - 1) }

parse_rtcm_1002(line, msm1) ==
  LET m1 == [msm1 EXCEPT !.time_of_week = EXTRACT(line.DF004, @),
                         !.num_satellites = EXTRACT(line.DF006, @)]
      m2 == [m1 EXCEPT
               !.svs = [i \in SatIdx |->
                          IF i < m1.num_satellites /\ Held(line.sats, i)
                          THEN EXTRACT(line.sats[i + 1].DF009, @[i]) ELSE @[i]],
               !.remainders = [i \in SatIdx |->
                          IF i < m1.num_satellites /\ Held(line.sats, i)
                          THEN EXTRACT(line.sats[i + 1].DF011, @[i]) ELSE @[i]],
               !.ambiguities = [i \in SatIdx |->
                          IF i < m1.num_satellites /\ Held(line.sats, i)
                          THEN EXTRACT(line.sats[i + 1].DF014, @[i]) ELSE @[i]]]
  IN [m2 EXCEPT !.pseudoranges =
        [i \in SatIdx |->
           IF i < m2.num_satellites
           THEN compute_pseudorange_msm1(m2.ambiguities[i], m2.remainders[i])
           ELSE @[i]]]

\* ----------------------------------------------------------- history store
\* eph_history_t: the record array and its counter.
ZeroHist == [ eph |-> [i \in EphIdx |-> ZeroEph], count |-> 0 ]

\* The null pointer as an argument of store_ephemeris.
NULL == [ null |-> TRUE ]

\* A store_ephemeris that returns -2 for NULL and -1 for a PRN out of range.
store_ephemeris_ret_swapped(new_eph) ==
  IF new_eph = NULL THEN -2
  ELSE IF new_eph.satellite_id < 1 \/ new_eph.satellite_id > MAX_SAT THEN -1
  ELSE 0

\* Return value of store_ephemeris: -1 for NULL, -2 for a satellite_id
\* outside 1..MAX_SAT, 0 otherwise.
store_ephemeris_ret(new_eph) ==
  IF new_eph = NULL THEN -1
  ELSE IF new_eph.satellite_id < 1 \/ new_eph.satellite_id > MAX_SAT THEN -2
  ELSE 0

\* A store that drops a record whose TOE equals that of the last one held.
store_ephemeris_history_dedup(hist, new_eph) ==
  IF store_ephemeris_ret(new_eph) # 0 THEN hist
  ELSE LET prn == new_eph.satellite_id
           idx == hist[prn].count
       IN IF idx > 0 /\ idx <= MAX_EPH_HISTORY
             /\ hist[prn].eph[idx - 1].gps_toe = new_eph.gps_toe
          THEN hist
          ELSE [hist EXCEPT ![prn] =
                  [ eph |-> IF idx < MAX_EPH_HISTORY
                            THEN [hist[prn].eph EXCEPT ![idx] = new_eph]
                            ELSE hist[prn].eph,
                    count |-> idx + 1 ]]

\* eph_history after store_ephemeris(new_eph): count++ is unconditional, the
\* record is written only when the old count is below MAX_EPH_HISTORY.
store_ephemeris_history(hist, new_eph) ==
  IF store_ephemeris_ret(new_eph) # 0 THEN hist
  ELSE LET prn == new_eph.satellite_id
           idx == hist[prn].count
       IN [hist EXCEPT ![prn] =
             [ eph |-> IF idx < MAX_EPH_HISTORY
                       THEN [hist[prn].eph EXCEPT ![idx] = new_eph]
                       ELSE hist[prn].eph,
               count |-> idx + 1 ]]

\* eph_table after store_ephemeris(new_eph).
store_ephemeris_table(table, new_eph) ==
  IF store_ephemeris_ret(new_eph) # 0 THEN table
  ELSE [table EXCEPT ![new_eph.satellite_id] = new_eph]

\* eph_available after store_ephemeris(new_eph).
store_ephemeris_available(avail, new_eph) ==
  IF store_ephemeris_ret(new_eph) # 0 THEN avail
  ELSE [avail EXCEPT ![new_eph.satellite_id] = TRUE]

\* A store loop that, on a full history, overwrites the newest slot.
RECURSIVE StoreLoopOverwrite(_, _, _, _, _)
StoreLoopOverwrite(st, rec, prns, n, i) ==
  IF i >= n THEN st
  ELSE LET prn == prns[i]
       IN IF prn < 1 \/ prn > MAX_SAT
          THEN StoreLoopOverwrite(st, rec, prns, n, i + 1)
          ELSE LET epoch_idx == st.count[prn]
                   st2 == [ count |-> [st.count EXCEPT ![prn] = epoch_idx + 1],
                            history |->
                              [st.history EXCEPT
                                 ![prn][IF epoch_idx < MAX_EPOCHS THEN epoch_idx
                                        ELSE MAX_EPOCHS - 1] = rec] ]
               IN StoreLoopOverwrite(st2, rec, prns, n, i + 1)

\* The loop that stores for the first listed satellite only.
RECURSIVE StoreLoopFirstOnly(_, _, _, _, _)
StoreLoopFirstOnly(st, rec, prns, n, i) ==
  IF i >= n \/ i >= 1 THEN st
  ELSE LET prn == prns[i]
       IN IF prn < 1 \/ prn > MAX_SAT
          THEN StoreLoopFirstOnly(st, rec, prns, n, i + 1)
          ELSE LET epoch_idx == st.count[prn]
                   st2 == [ count |-> [st.count EXCEPT ![prn] = epoch_idx + 1],
                            history |->
                              IF epoch_idx < MAX_EPOCHS
                              THEN [st.history EXCEPT ![prn][epoch_idx] = rec]
                              ELSE st.history ]
               IN StoreLoopFirstOnly(st2, rec, prns, n, i + 1)

\* The loop of store_msm4 / store_msm1 over the listed satellites, on the
\* pair st = [count, history]: for entry i, a PRN outside 1..MAX_SAT is
\* skipped; otherwise the counter is incremented unconditionally and the
\* record is written only when the old counter is below MAX_EPOCHS.
RECURSIVE StoreLoop(_, _, _, _, _)
StoreLoop(st, rec, prns, n, i) ==
  IF i >= n THEN st
  ELSE LET prn == prns[i]
       IN IF prn < 1 \/ prn > MAX_SAT
          THEN StoreLoop(st, rec, prns, n, i + 1)
          ELSE LET epoch_idx == st.count[prn]
                   st2 == [ count |-> [st.count EXCEPT ![prn] = epoch_idx + 1],
                            history |->
                              IF epoch_idx < MAX_EPOCHS
                              THEN [st.history EXCEPT ![prn][epoch_idx] = rec]
                              ELSE st.history ]
               IN StoreLoop(st2, rec, prns, n, i + 1)

store_msm4(st, new_msm4) ==
  StoreLoop(st, new_msm4, new_msm4.prn, new_msm4.n_sat, 0)

store_msm1(st, new_msm1) ==
  StoreLoop(st, new_msm1, new_msm1.svs, new_msm1.num_satellites, 0)

\* ------------------------------------------------- satellite series builder
\* hist->eph[i]: a slot at or beyond MAX_EPH_HISTORY lies outside the
\* array; what such a read yields is oob, any record the build can produce.
EphAt(h, i, oob) == IF i < MAX_EPH_HISTORY THEN h.eph[i] ELSE oob

\* The scan with a strict comparison against best_toe.
RECURSIVE ClosestScanStrict(_, _, _, _, _, _)
ClosestScanStrict(h, pseudorange_time, oob, i, best_idx, best_toe) ==
  IF i >= h.count THEN best_idx
  ELSE LET toe == EphAt(h, i, oob).gps_toe
       IN IF toe <= pseudorange_time /\ (toe > best_toe \/ best_idx = NoIdx)
          THEN ClosestScanStrict(h, pseudorange_time, oob, i + 1, i, toe)
          ELSE ClosestScanStrict(h, pseudorange_time, oob, i + 1, best_idx,
                                 best_toe)

\* The scan of find_closest_eph_idx from slot i on.
RECURSIVE ClosestScan(_, _, _, _, _, _)
ClosestScan(h, pseudorange_time, oob, i, best_idx, best_toe) ==
  IF i >= h.count THEN best_idx
  ELSE LET toe == EphAt(h, i, oob).gps_toe
       IN IF toe <= pseudorange_time /\ toe >= best_toe
          THEN ClosestScan(h, pseudorange_time, oob, i + 1, i, toe)
          ELSE ClosestScan(h, pseudorange_time, oob, i + 1, best_idx, best_toe)

find_closest_eph_idx(h, pseudorange_time, oob) ==
  ClosestScan(h, pseudorange_time, oob, 0, NoIdx, 0)

\* gps_satellite_data_t after memset(gps_list, 0, ...).
ZeroSat ==
  [ prn |-> 0,
    pseudoranges |-> ZeroArr(EpochIdx),
    times_of_pseudorange |-> ZeroArr(EpochIdx),
    eccentricities |-> ZeroArr(EpochIdx),
    inclinations |-> ZeroArr(EpochIdx),
    mean_anomalies |-> ZeroArr(EpochIdx),
    semi_major_axes |-> ZeroArr(EpochIdx),
    right_ascension_of_ascending_node |-> ZeroArr(EpochIdx),
    argument_of_periapsis |-> ZeroArr(EpochIdx),
    times_of_ephemeris |-> ZeroArr(EpochIdx) ]

\* The seven ephemeris assignments at series position i.
SetEphAt(g, i, eph) ==
  [g EXCEPT !.eccentricities[i] = eph.eccentricity,
            !.inclinations[i] = eph.inclination,
            !.mean_anomalies[i] = eph.mean_anomaly,
            !.semi_major_axes[i] = eph.semi_major_axis,
            !.right_ascension_of_ascending_node[i] =
                eph.right_ascension_of_ascending_node,
            !.argument_of_periapsis[i] = eph.argument_of_periapsis,
            !.times_of_ephemeris[i] = eph.gps_toe]

\* First j < n with prns[j] = prn, or NoIdx.
RECURSIVE FirstMatch(_, _, _, _)
FirstMatch(prns, n, prn, j) ==
  IF j >= n THEN NoIdx
  ELSE IF prns[j] = prn THEN j ELSE FirstMatch(prns, n, prn, j + 1)

\* One pass of the observation loop of sort_satellites for one PRN: entry i
\* of the PRN's observation history, given as (prns, n, prs, t) of the
\* record stored there.
SortEntry(g, i, h, prn, prns, n, prs, t, oob) ==
  LET j == FirstMatch(prns, n, prn, 0)
  IN IF j # NoIdx
     THEN LET g1 == [g EXCEPT !.pseudoranges[i] = prs[j],
                              !.times_of_pseudorange[i] = t]
              eph_idx == find_closest_eph_idx(h, t, oob)
          IN IF eph_idx >= 0
             THEN SetEphAt(g1, i, EphAt(h, eph_idx, oob))
             ELSE SetEphAt(g1, i, ZeroEph)
     ELSE SetEphAt([g EXCEPT !.pseudoranges[i] = 0,
                             !.times_of_pseudorange[i] = 0], i, ZeroEph)

RECURSIVE SortMsm4(_, _, _, _, _, _, _)
SortMsm4(g, i, len, table, h, prn, oob) ==
  IF ~(i < len /\ i < MAX_EPOCHS) THEN g
  ELSE LET r == table[i]
       IN SortMsm4(SortEntry(g, i, h, prn, r.prn, r.n_sat,
                             r.pseudorange, r.time_of_pseudorange, oob),
                   i + 1, len, table, h, prn, oob)

RECURSIVE SortMsm1(_, _, _, _, _, _, _)
SortMsm1(g, i, len, table, h, prn, oob) ==
  IF ~(i < len /\ i < MAX_EPOCHS) THEN g
  ELSE LET r == table[i]
       IN SortMsm1(SortEntry(g, i, h, prn, r.svs, r.num_satellites,
                             r.pseudoranges, r.time_of_week, oob),
                   i + 1, len, table, h, prn, oob)

\* The append loop of populate_ephemeris_series_from_history.
RECURSIVE PopulateLoop(_, _, _, _, _, _)
PopulateLoop(g, h, oob, i, eidx, last_toe) ==
  IF ~(i < h.count /\ eidx < MAX_EPOCHS) THEN g
  ELSE LET eph == EphAt(h, i, oob)
       IN IF i = 0 \/ eph.gps_toe # last_toe
          THEN PopulateLoop(SetEphAt(g, eidx, eph), h, oob, i + 1, eidx + 1,
                            eph.gps_toe)
          ELSE PopulateLoop(g, h, oob, i + 1, eidx, last_toe)

\* gps_list[prn] after populate_ephemeris_series_from_history(prn, hist):
\* the seven ephemeris arrays are reset, then refilled unique-by-TOE.
populate_ephemeris_series_from_history(g, h, oob) ==
  LET reset == [g EXCEPT !.eccentricities = ZeroArr(EpochIdx),
                         !.inclinations = ZeroArr(EpochIdx),
                         !.mean_anomalies = ZeroArr(EpochIdx),
                         !.semi_major_axes = ZeroArr(EpochIdx),
                         !.right_ascension_of_ascending_node = ZeroArr(EpochIdx),
                         !.argument_of_periapsis = ZeroArr(EpochIdx),
                         !.times_of_ephemeris = ZeroArr(EpochIdx)]
  IN PopulateLoop(reset, h, oob, 0, 0, -1)

\* A series builder that accepts any observation type.
sort_satellites_ret_any(obs_type) == 0

\* Return value of sort_satellites.
sort_satellites_ret(obs_type) == IF obs_type = 1 \/ obs_type = 4 THEN 0 ELSE 1

\* gps_list[prn] as the observation loops of sort_satellites leave it
\* (before the ephemeris-only series is built).
SortObservations(obs_type, hists, cnt4, tab4, cnt1, tab1, oob) ==
  [prn \in PRNS |->
     LET g0 == [ZeroSat EXCEPT !.prn = prn]
     IN IF obs_type = 1
        THEN SortMsm1(g0, 0, cnt1[prn], tab1[prn], hists[prn], prn, oob)
        ELSE SortMsm4(g0, 0, cnt4[prn], tab4[prn], hists[prn], prn, oob)]

\* gps_list after sort_satellites: memset, the observation loops of the
\* active family, then the ephemeris-only series of every PRN; an
\* unsupported observation type returns after the memset.
sort_satellites(obs_type, hists, cnt4, tab4, cnt1, tab1, oob) ==
  IF sort_satellites_ret(obs_type) # 0 THEN [prn \in PRNS |-> ZeroSat]
  ELSE LET obs == SortObservations(obs_type, hists, cnt4, tab4, cnt1, tab1, oob)
       IN [prn \in PRNS |->
             populate_ephemeris_series_from_history(obs[prn], hists[prn], oob)]

\* ------------------------------------------------------------- propagation
\* The all-zero entry of a zero-initialised position array.
NoPos == [ a |-> 0, e |-> 0, i |-> 0, Omega |-> 0, omega |-> 0, M0 |-> 0,
           dt |-> 0, theta_t |-> 0, t_ms |-> 0 ]
ZeroPositions == [prn \in PRNS |-> [k \in EpochIdx |-> NoPos]]

\* The static copy of find_closest_eph_idx in the ECI propagator.
find_closest_eph_idx_eci(h, pseudorange_time, oob) ==
  ClosestScan(h, pseudorange_time, oob, 0, NoIdx, 0)

\* Step 1 of satellite_position_eci: milliseconds to seconds.
NormalizeObsTime(t) == IF t > SecondsPerWeek THEN t \div MsPerSecond ELSE t

\* The ECI sample of (prn, k): the position is a function of the six
\* elements of the selected ephemeris and of dt = t_obs - toe; a skipped
\* sample keeps the entry as it was.
EciSample(old, g, h, k, oob) ==
  IF h.count = 0 \/ g.times_of_pseudorange[k] = 0 THEN old
  ELSE LET t_obs == NormalizeObsTime(g.times_of_pseudorange[k])
           eph_idx == find_closest_eph_idx_eci(h, t_obs, oob)
       IN IF eph_idx < 0 THEN old
          ELSE LET eph == EphAt(h, eph_idx, oob)
               IN IF ~(eph.semi_major_axis > 0) \/ ~(eph.eccentricity >= 0)
                  THEN old
                  ELSE [NoPos EXCEPT
                          !.a = eph.semi_major_axis,
                          !.e = eph.eccentricity,
                          !.i = eph.inclination,
                          !.Omega = eph.right_ascension_of_ascending_node,
                          !.omega = eph.argument_of_periapsis,
                          !.M0 = eph.mean_anomaly,
                          !.dt = t_obs - eph.gps_toe]

\* sat_eci_positions after satellite_position_eci(gps_list).
satellite_position_eci(eci, glist, hists, oob) ==
  [prn \in PRNS |-> [k \in EpochIdx |->
     EciSample(eci[prn][k], glist[prn], hists[prn], k, oob)]]

MsThreshold == 1000000
normalize_time_seconds(t) == IF t > MsThreshold THEN t \div MsPerSecond ELSE t

\* sat_ecef_positions after satellite_position_ecef(gps_list): the ECI
\* sample rotated by the Earth angle at t_sec, stamped with t_ms.
satellite_position_ecef(ecef, eci, glist) ==
  [prn \in PRNS |-> [k \in EpochIdx |->
     IF eci[prn][k] = NoPos \/ glist[prn].times_of_pseudorange[k] = 0
     THEN ecef[prn][k]
     ELSE LET t_sec == normalize_time_seconds(glist[prn].times_of_pseudorange[k])
          IN [eci[prn][k] EXCEPT !.theta_t = t_sec,
                                 !.t_ms = t_sec * MsPerSecond]]]

\* sat_orbit_eci_positions after satellite_orbit_eci(gps_list): the orbit
\* of a PRN is swept from the elements at series index 0.
NoOrbit == [ a |-> 0, e |-> 0, i |-> 0, omega |-> 0, Omega |-> 0 ]
satellite_orbit_eci(orbit, glist) ==
  [prn \in PRNS |->
     IF glist[prn].times_of_ephemeris[0] = 0 THEN orbit[prn]
     ELSE [ a |-> glist[prn].semi_major_axes[0],
            e |-> glist[prn].eccentricities[0],
            i |-> glist[prn].inclinations[0],
            omega |-> glist[prn].argument_of_periapsis[0],
            Omega |-> glist[prn].right_ascension_of_ascending_node[0] ]]

\* ------------------------------------------------------------------ solver
pr_count_for_prn(pr_count, glist, prn) ==
  IF pr_count[prn] > 0 /\ pr_count[prn] <= MAX_EPOCHS THEN pr_count[prn]
  ELSE Cardinality({k \in EpochIdx : glist[prn].times_of_pseudorange[k] # 0})

\* The collection loop of collect_unique_pr_times_ms: the non-zero times in
\* PRN then k order; the loop is left once MAX_UNIQUE_EPOCHS are held.
\* A collection loop without the MAX_UNIQUE_EPOCHS test.
RECURSIVE CollectRawUncapped(_, _, _, _, _)
CollectRawUncapped(pr_count, glist, prn, k, out) ==
  IF prn > MAX_SAT THEN out
  ELSE IF k >= pr_count_for_prn(pr_count, glist, prn)
       THEN CollectRawUncapped(pr_count, glist, prn + 1, 0, out)
       ELSE LET t == glist[prn].times_of_pseudorange[k]
            IN IF t = 0 THEN CollectRawUncapped(pr_count, glist, prn, k + 1, out)
               ELSE CollectRawUncapped(pr_count, glist, prn, k + 1,
                                       Append(out, t))

RECURSIVE CollectRaw(_, _, _, _, _)
CollectRaw(pr_count, glist, prn, k, out) ==
  IF prn > MAX_SAT THEN out
  ELSE IF k >= pr_count_for_prn(pr_count, glist, prn)
       THEN CollectRaw(pr_count, glist, prn + 1, 0, out)
       ELSE LET t == glist[prn].times_of_pseudorange[k]
            IN IF t = 0 THEN CollectRaw(pr_count, glist, prn, k + 1, out)
               ELSE IF Len(out) >= MAX_UNIQUE_EPOCHS THEN out
               ELSE CollectRaw(pr_count, glist, prn, k + 1, Append(out, t))

\* qsort(out_times_ms, n, sizeof(uint32_t), cmp_u32).
RECURSIVE InsertSorted(_, _)
InsertSorted(sorted, x) ==
  IF sorted = << >> THEN << x >>
  ELSE IF x <= Head(sorted) THEN << x >> \o sorted
       ELSE << Head(sorted) >> \o InsertSorted(Tail(sorted), x)

\* A collection that leaves the array in collection order.
Unsorted(out) == out

RECURSIVE qsort(_)
qsort(out) ==
  IF out = << >> THEN << >> ELSE InsertSorted(qsort(Tail(out)), Head(out))

\* The in-place deduplication of the sorted array from index i on; kept is
\* out_times_ms[0..w-1].
RECURSIVE DedupFrom(_, _, _)
DedupFrom(out, i, kept) ==
  IF i > Len(out) THEN kept
  ELSE IF out[i] # kept[Len(kept)]
       THEN DedupFrom(out, i + 1, Append(kept, out[i]))
       ELSE DedupFrom(out, i + 1, kept)

\* all_times[0..n_times-1] after collect_unique_pr_times_ms.
collect_unique_pr_times_ms(pr_count, glist) ==
  LET raw == CollectRaw(pr_count, glist, 1, 0, << >>)
  IN IF raw = << >> THEN << >>
     ELSE DedupFrom(qsort(raw), 2, << qsort(raw)[1] >>)

\* First k < n_pr with times_of_pseudorange[k] = t, or NoIdx.
RECURSIVE FirstAtTime(_, _, _, _)
FirstAtTime(g, n_pr, t, k) ==
  IF k >= n_pr THEN NoIdx
  ELSE IF g.times_of_pseudorange[k] = t THEN k
       ELSE FirstAtTime(g, n_pr, t, k + 1)

\* The gather of one epoch: the (prn, k) pairs taken, first match per SV,
\* in PRN order while fewer than MAX_SAT are held.
RECURSIVE GatherFrom(_, _, _, _, _)
GatherFrom(pr_count, glist, t, prn, acc) ==
  IF ~(prn <= MAX_SAT /\ Cardinality(acc) < MAX_SAT) THEN acc
  ELSE LET k == FirstAtTime(glist[prn],
                            pr_count_for_prn(pr_count, glist, prn), t, 0)
       IN GatherFrom(pr_count, glist, t, prn + 1,
                     IF k = NoIdx THEN acc ELSE acc \cup {<<prn, k>>})

Gather(pr_count, glist, t) == GatherFrom(pr_count, glist, t, 1, {})

\* The measurements of a gather: satellite, ECEF sample and pseudorange.
Measurements(glist, ecef, g) ==
  { << pk[1], ecef[pk[1]][pk[2]], glist[pk[1]].pseudoranges[pk[2]] >> : pk \in g }

\* The least-squares estimate is a function of the measurements; the zero
\* entry of estimated_positions_ecef is NoFix.
NoFix == [ meas |-> {} ]
Fix(meas) == [ meas |-> meas ]

\* With every satellite at the zero position, every row of G is (0,0,0,1)
\* and the first pivot of G^T G is exactly zero.
AllAtOrigin(meas) == \A m \in meas : m[2] = NoPos

\* ecef_to_geodetic: latitude, longitude and altitude of an estimate.
Geo(c, fix) == [ of |-> fix.meas, c |-> c ]
NoGeo == [ lat |-> Geo("zero", NoFix), lon |-> Geo("zero", NoFix),
           alt |-> Geo("zero", NoFix) ]
ecef_to_geodetic(fix) ==
  [ lat |-> Geo("lat", fix), lon |-> Geo("lon", fix), alt |-> Geo("alt", fix) ]

\* ------------------------------------------------------------------ inputs
\* The cells a 1074 line may list: two L1 C/A cells and one L2 cell.
InputCells == { Cell(1, "1C", 5), Cell(2, "1C", 6), Cell(1, "2W", 4) }

RECURSIVE SeqsUpTo(_, _)
SeqsUpTo(S, n) ==
  IF n = 0 THEN { << >> }
  ELSE LET shorter == SeqsUpTo(S, n - 1)
       IN shorter \cup { Append(q, x) : q \in shorter, x \in S }

NumL1(cells) == Cardinality({ i \in 1..Len(cells) : cells[i].CELLSIG = "1C" })

\* Cell lists within the capacity of the decoder's arrays; a message lists
\* each (satellite, signal) cell once.
CellLists ==
  { c \in SeqsUpTo(InputCells, MAX_CELL) :
      /\ NumL1(c) <= MAX_SAT
      /\ \A i, j \in 1..Len(c) : i # j => c[i] # c[j] }

\* A 1074 line that lists one satellite more than the record has room for.
BigSat ==
  Line1074(7000000, [i \in 1..(MAX_SAT + 1) |-> i], [i \in 1..(MAX_SAT + 1) |-> 1],
           [i \in 1..(MAX_SAT + 1) |-> 3], << Cell(1, "1C", 5) >>)

\* A 1019 line without its DF090 and DF097 tokens.
EphPartial == [Line1019(2, 7200, 1) EXCEPT !.DF090 = Absent, !.DF097 = Absent]

\* The lines a file may hold.
FileLines ==
  { NoLine, LineNoType, LineOther(1005), BigSat, EphPartial,
    Line1002(15000000, << Sv(1, 1, 5) >>),
    Line1019(1, 7200, 1), Line1019(1, 14400, 2), Line1019(MAX_SAT + 1, 7200, 1) }
  \cup { Line1074(7000000, << 1, 2 >>, << 1, 2 >>, << 3, 4 >>, c) : c \in CellLists }

\* The messages handed to the history store, all within the capacity of
\* the records.
Eph1 == Line1019(1, 7200, 1)
Eph2 == Line1019(1, 14400, 2)
Eph3 == Line1019(1, 7200, 3)
Obs4a == Line1074(7000000, << 1, 2 >>, << 1, 2 >>, << 3, 4 >>,
                  << Cell(1, "1C", 5), Cell(2, "1C", 6) >>)
Obs4b == Line1074(15000000, << 1 >>, << 2 >>, << 3 >>, << Cell(1, "1C", 5) >>)
Obs1a == Line1002(15000000, << Sv(1, 1, 5), Sv(2, 2, 6) >>)
Eph4 == Line1019(2, 7200, 1)
Obs4c == Line1074(8000, << 2 >>, << 1 >>, << 4 >>, << Cell(2, "1C", 6) >>)
StoreLines == { Eph1, Eph2, Eph3, Obs4a, Obs4b, Obs1a }

\* The messages of a second stream, with enough satellites for a fix.
Obs4d == Line1074(15000000, << 1, 2, 3, 4 >>, << 1, 2, 3, 4 >>, << 3, 4, 5, 6 >>,
                  << Cell(1, "1C", 5), Cell(2, "1C", 6),
                     Cell(3, "1C", 7), Cell(4, "1C", 8) >>)
Obs4e == Line1074(7000000, << 2, 3, 4 >>, << 2, 3, 4 >>, << 4, 5, 6 >>,
                  << Cell(2, "1C", 6), Cell(3, "1C", 7), Cell(4, "1C", 8) >>)
Obs4f == Line1074(16000000, << 1, 2, 3, 4 >>, << 2, 3, 4, 5 >>, << 3, 4, 5, 6 >>,
                  << Cell(1, "1C", 5), Cell(2, "1C", 6), Cell(3, "1C", 7), Cell(4, "1C", 8) >>)
SolverLines == { Eph1, Eph4, Obs4d, Obs4e, Obs4f }

\* The messages of a third stream: the first listed satellite has no "1C"
\* cell, or a PRN outside 1..MAX_SAT.
Obs4g == Line1074(15000000, << 1, 2 >>, << 1, 2 >>, << 3, 4 >>,
                  << Cell(1, "2W", 4), Cell(2, "1C", 6) >>)
EphOut == Line1019(MAX_SAT + 1, 7200, 1)
Obs4h == Line1074(9000, << 0, 2 >>, << 1, 2 >>, << 3, 4 >>,
                  << Cell(2, "1C", 6) >>)
CellLines == { Eph4, EphOut, Obs4c, Obs4g, Obs4h }

\* The messages of a fourth stream: an observation 700 s into the week,
\* with DF004 in milliseconds, an ephemeris of an earlier TOE, and an
\* ephemeris whose TOE is the start of the week; with the other
\* observations, satellites seen at more distinct times than one history
\* holds.
Eph5 == Line1019(2, 600, 1)
Eph6 == Line1019(3, 0, 1)
Obs4i == Line1074(700000, << 2 >>, << 1 >>, << 4 >>, << Cell(2, "1C", 6) >>)
TimeLines == { Eph5, Eph6, Obs4i, Obs4b, Obs4c, Obs4h }

\* What a read past the end of hist->eph may yield.
OobEphs == { ZeroEph, parse_rtcm_1019(Eph2, ZeroEph) }

\* ------------------------------------------------------------------- state
VARIABLES
  pc,                      \* position of the driver
  ret,                     \* return value of file_input_mode
  stages,                  \* the stages started so far, in order
  status,                  \* the return value of each started stage
  nread,                   \* lines consumed so far
  line,                    \* the line consumed last
  feed,                    \* the messages this run draws from
  msm4, msm1,              \* the records decoded last
  observation_type,
  eph_history, eph_table, eph_available,
  msm4_count, msm4_history, msm1_count, msm1_history,
  gps_list,
  sat_eci_positions, sat_ecef_positions, sat_orbit_eci_positions,
  n_times, gathered,       \* epochs of the solver and the gather of each
  solved,                  \* the epochs that received a position estimate
  all_times,               \* the solver's sorted epoch list
  singular,                \* the epochs whose normal matrix was singular
  estimated_positions_ecef, latlonalt_positions,
  beyond_x,                \* indices written past estimated_positions_ecef
  oob_read,                \* what the last read past hist->eph yielded
  overrun,                 \* the out-of-array writes of the last decode
  store_status,            \* what store_ephemeris returned in the last pass
  emitted                  \* the output files were written

vars ==
  << pc, ret, stages, status, nread, line, feed, msm4, msm1,
     observation_type,
     eph_history, eph_table, eph_available,
     msm4_count, msm4_history, msm1_count, msm1_history, gps_list,
     sat_eci_positions, sat_ecef_positions, sat_orbit_eci_positions,
     n_times, gathered, solved, all_times, singular,
     estimated_positions_ecef, latlonalt_positions, beyond_x,
     oob_read, overrun, store_status, emitted >>

tables == << eph_history, eph_table, eph_available,
             msm4_count, msm4_history, msm1_count, msm1_history >>
solver == << n_times, gathered, solved, all_times, singular,
            estimated_positions_ecef, latlonalt_positions, beyond_x >>
outputs == << gps_list, sat_eci_positions, sat_ecef_positions,
              sat_orbit_eci_positions, solver, oob_read, emitted >>

\* pseudorange_count is never assigned: it keeps its static zeros.
pseudorange_count == [prn \in PRNS |-> 0]

\* The zero-initialised globals.
InitGlobals ==
  /\ nread = 0
  /\ line = NoLine
  /\ msm4 = ZeroMsm4
  /\ msm1 = ZeroMsm1
  /\ eph_history = [prn \in PRNS |-> ZeroHist]
  /\ eph_table = [prn \in PRNS |-> ZeroEph]
  /\ eph_available = [prn \in PRNS |-> FALSE]
  /\ msm4_count = [prn \in PRNS |-> 0]
  /\ msm4_history = [prn \in PRNS |-> [k \in EpochIdx |-> ZeroMsm4]]
  /\ msm1_count = [prn \in PRNS |-> 0]
  /\ msm1_history = [prn \in PRNS |-> [k \in EpochIdx |-> ZeroMsm1]]
  /\ gps_list = [prn \in PRNS |-> ZeroSat]
  /\ sat_eci_positions = ZeroPositions
  /\ sat_ecef_positions = ZeroPositions
  /\ sat_orbit_eci_positions = [prn \in PRNS |-> NoOrbit]
  /\ n_times = 0
  /\ gathered = << >>
  /\ solved = {}
  /\ all_times = << >>
  /\ singular = {}
  /\ estimated_positions_ecef = [ti \in EpochIdx |-> NoFix]
  /\ latlonalt_positions = [ti \in EpochIdx |-> NoGeo]
  /\ beyond_x = {}
  /\ oob_read = ZeroEph
  /\ overrun = {}
  /\ store_status = NotReturned
  /\ emitted = FALSE
  /\ ret = NotReturned

Init ==
  /\ InitGlobals
  /\ pc = "connect"
  /\ feed = FileLines
  /\ stages = << >>
  /\ status = << >>
  /\ observation_type = 0

\* ------------------------------------------------------------------ driver
\* The stages of file_input_mode, in the order of its calls.
StageOrder == << "read", "sort", "eci", "ecef", "orbit", "solve", "emit" >>

\* A driver that goes on to the next stage whatever the status.
NextStageUnchecked(n, st) ==
  IF n < Len(StageOrder) THEN StageOrder[n + 1] ELSE "done"

\* Where file_input_mode goes after the stage at position n of StageOrder
\* returned st: any non-zero status returns 1 at once.
NextStage(n, st) ==
  IF st # 0 THEN "done"
  ELSE IF n < Len(StageOrder) THEN StageOrder[n + 1] ELSE "done"

\* The value file_input_mode returns when it stops after a stage status.
DriverRet(st) == IF st # 0 THEN 1 ELSE 0

\* Step 1: file_connect; a NULL stream returns 1 before any stage.
Connect ==
  /\ pc = "connect"
  /\ \E opened \in BOOLEAN :
       IF opened
       THEN /\ pc' = "read"
            /\ stages' = << "read" >>
            /\ UNCHANGED ret
       ELSE /\ pc' = "done"
            /\ ret' = 1
            /\ UNCHANGED stages
  /\ UNCHANGED << status, nread, line, feed, msm4, msm1, overrun, store_status,
                  observation_type, tables, outputs >>

\* ------------------------------------------------------------------ reader
\* One pass of the fgets loop of read_next_rtcm_message on line l.
CanRead == pc = "read" /\ nread < MaxLines

Consume(l) ==
  /\ nread' = nread + 1
  /\ line' = l
  /\ UNCHANGED << pc, ret, stages, status, feed, observation_type, outputs >>

\* A line starting with newline, '#', NUL, blank or tab.
ReadSkip ==
  /\ CanRead
  /\ \E l \in feed :
       /\ l.kind = "skip"
       /\ Consume(l)
  /\ store_status' = NotReturned
  /\ UNCHANGED << msm4, msm1, overrun, tables >>

\* A line without "DF002=".
ReadNoDF002 ==
  /\ CanRead
  /\ \E l \in feed :
       /\ l.kind # "skip" /\ l.DF002 = Absent
       /\ Consume(l)
  /\ store_status' = NotReturned
  /\ UNCHANGED << msm4, msm1, overrun, tables >>

\* message_type != 1019 && message_type != 1074.
ReadUnsupported ==
  /\ CanRead
  /\ \E l \in feed :
       /\ l.kind # "skip" /\ l.DF002 # Absent
       /\ l.DF002 # 1019 /\ l.DF002 # 1074
       /\ Consume(l)
  /\ store_status' = NotReturned
  /\ UNCHANGED << msm4, msm1, overrun, tables >>

\* A 1019 line: parse_rtcm_1019 into a zeroed local, then store_ephemeris.
Read1019 ==
  /\ CanRead
  /\ \E l \in feed :
       /\ l.kind # "skip" /\ l.DF002 = 1019
       /\ Consume(l)
       /\ LET eph == parse_rtcm_1019(l, ZeroEph)
          IN /\ store_status' = store_ephemeris_ret(eph)
             /\ eph_history' = store_ephemeris_history(eph_history, eph)
             /\ eph_table' = store_ephemeris_table(eph_table, eph)
             /\ eph_available' = store_ephemeris_available(eph_available, eph)
  /\ UNCHANGED << msm4, msm1, overrun, msm4_count, msm4_history,
                  msm1_count, msm1_history >>

\* A 1074 line: parse_rtcm_1074 into a zeroed local; nothing is stored.
Read1074 ==
  /\ CanRead
  /\ \E l \in feed :
       /\ l.kind # "skip" /\ l.DF002 = 1074
       /\ Consume(l)
       /\ msm4' \in parse_rtcm_1074_outcomes(l, ZeroMsm4)
       /\ overrun' = Overrun1074(l)
       /\ store_status' = NotReturned
  /\ UNCHANGED << msm1, tables >>

\* fgets returns NULL: the reader returns 1, and the driver, seeing a
\* non-zero status, returns 1.
ReadEOF ==
  /\ pc = "read"
  /\ LET st == 1
     IN /\ status' = Append(status, st)
        /\ pc' = NextStage(1, st)
        /\ ret' = DriverRet(st)
  /\ store_status' = NotReturned
  /\ UNCHANGED << stages, nread, line, feed, msm4, msm1, overrun, observation_type,
                  tables, outputs >>

\* The loop of app_menu: after file_input_mode has returned, option 3 is
\* chosen again and file_input_mode is called anew.  Nothing on the way
\* assigns a global table; the locals of the call are fresh.  MaxLines
\* bounds the lines consumed over all calls.
AppMenuOption3 ==
  /\ pc = "done"
  /\ pc' = "connect"
  /\ ret' = NotReturned
  /\ stages' = << >>
  /\ status' = << >>
  /\ UNCHANGED << nread, line, feed, msm4, msm1, overrun, store_status,
                  observation_type, tables, outputs >>

Next ==
  \/ Connect
  \/ ReadSkip
  \/ ReadNoDF002
  \/ ReadUnsupported
  \/ Read1019
  \/ Read1074
  \/ ReadEOF
  \/ AppMenuOption3

Spec == Init /\ [][Next]_vars

\* ------------------------------------------------- stages on stored tables
\* The history store and the stages of file_input_mode after the read:
\* any sequence of store_ephemeris, store_msm4 and store_msm1 calls on
\* decoded messages fills the tables, the read stage returns a status that
\* is an input here, and the driver runs on from its step 2.
\* No statement of the program assigns observation_type, so each of its
\* values of interest is a start state here.
InitStages ==
  /\ InitGlobals
  /\ pc = "load"
  /\ feed \in { StoreLines, SolverLines, CellLines, TimeLines }
  /\ stages = << "read" >>
  /\ status = << >>
  /\ observation_type \in {0, 1, 4}

CanStore == pc = "load" /\ nread < MaxLines

\* parse_rtcm_1019 then store_ephemeris.
Store1019 ==
  /\ CanStore
  /\ \E l \in feed :
       /\ l.DF002 = 1019
       /\ Consume(l)
       /\ LET eph == parse_rtcm_1019(l, ZeroEph)
          IN /\ store_status' = store_ephemeris_ret(eph)
             /\ eph_history' = store_ephemeris_history(eph_history, eph)
             /\ eph_table' = store_ephemeris_table(eph_table, eph)
             /\ eph_available' = store_ephemeris_available(eph_available, eph)
  /\ UNCHANGED << msm4, msm1, overrun, msm4_count, msm4_history,
                  msm1_count, msm1_history >>

\* parse_rtcm_1074 then store_msm4.
Store1074 ==
  /\ CanStore
  /\ \E l \in feed :
       /\ l.DF002 = 1074
       /\ Consume(l)
       /\ LET rec == parse_rtcm_1074(l, ZeroMsm4)
              st == store_msm4([count |-> msm4_count, history |-> msm4_history],
                               rec)
          IN /\ msm4' = rec
             /\ overrun' = Overrun1074(l)
             /\ store_status' = NotReturned
             /\ msm4_count' = st.count
             /\ msm4_history' = st.history
  /\ UNCHANGED << msm1, eph_history, eph_table, eph_available,
                  msm1_count, msm1_history >>

\* parse_rtcm_1002 then store_msm1.
Store1002 ==
  /\ CanStore
  /\ \E l \in feed :
       /\ l.DF002 = 1002
       /\ Consume(l)
       /\ LET rec == parse_rtcm_1002(l, ZeroMsm1)
              st == store_msm1([count |-> msm1_count, history |-> msm1_history],
                               rec)
          IN /\ msm1' = rec
             /\ overrun' = Overrun1002(l)
             /\ store_status' = NotReturned
             /\ msm1_count' = st.count
             /\ msm1_history' = st.history
  /\ UNCHANGED << msm4, eph_history, eph_table, eph_available,
                  msm4_count, msm4_history >>

\* store_ephemeris on a null pointer. No caller in the repository passes
\* one: the call is an input of this specification.
StoreNull ==
  /\ CanStore
  /\ store_status' = store_ephemeris_ret(NULL)
  /\ eph_history' = store_ephemeris_history(eph_history, NULL)
  /\ eph_table' = store_ephemeris_table(eph_table, NULL)
  /\ eph_available' = store_ephemeris_available(eph_available, NULL)
  /\ UNCHANGED << pc, ret, stages, status, nread, line, feed, msm4, msm1,
                  overrun, observation_type, msm4_count, msm4_history,
                  msm1_count, msm1_history, outputs >>

\* A stage at position n of StageOrder returned st.
StageDone(n, st) ==
  /\ status' = Append(status, st)
  /\ pc' = NextStage(n, st)
  /\ stages' = IF NextStage(n, st) = "done" THEN stages
               ELSE Append(stages, NextStage(n, st))
  /\ ret' = IF NextStage(n, st) = "done" THEN DriverRet(st) ELSE ret
  /\ store_status' = NotReturned
  /\ UNCHANGED << nread, line, feed, msm4, msm1, overrun,
                  observation_type, tables >>

\* Step 2: the status check after read_next_rtcm_message.
ReadReturns ==
  /\ pc = "load"
  /\ \E st \in {0, 1} : StageDone(1, st)
  /\ UNCHANGED outputs

\* Step 3, sort_satellites.
Sort ==
  /\ pc = "sort"
  /\ \E oob \in OobEphs :
       /\ gps_list' = sort_satellites(observation_type, eph_history,
                                      msm4_count, msm4_history,
                                      msm1_count, msm1_history, oob)
       /\ oob_read' = oob
  /\ StageDone(2, sort_satellites_ret(observation_type))
  /\ UNCHANGED << sat_eci_positions, sat_ecef_positions,
                  sat_orbit_eci_positions, solver, emitted >>

\* Step 4, satellite_position_eci.
Eci ==
  /\ pc = "eci"
  /\ \E oob \in OobEphs :
       /\ sat_eci_positions' =
            satellite_position_eci(sat_eci_positions, gps_list, eph_history,
                                   oob)
       /\ oob_read' = oob
  /\ StageDone(3, 0)
  /\ UNCHANGED << gps_list, sat_ecef_positions, sat_orbit_eci_positions,
                  solver, emitted >>

\* Step 5, satellite_position_ecef.
Ecef ==
  /\ pc = "ecef"
  /\ sat_ecef_positions' =
       satellite_position_ecef(sat_ecef_positions, sat_eci_positions, gps_list)
  /\ StageDone(4, 0)
  /\ UNCHANGED << gps_list, sat_eci_positions, sat_orbit_eci_positions,
                  solver, oob_read, emitted >>

\* An orbit stage that clears the series it has swept.
OrbitClearingSeries ==
  /\ pc = "orbit"
  /\ sat_orbit_eci_positions' =
       satellite_orbit_eci(sat_orbit_eci_positions, gps_list)
  /\ gps_list' = [prn \in PRNS |-> ZeroSat]
  /\ StageDone(5, 0)
  /\ UNCHANGED << sat_eci_positions, sat_ecef_positions,
                  solver, oob_read, emitted >>

\* Step 6, satellite_orbit_eci.
Orbit ==
  /\ pc = "orbit"
  /\ sat_orbit_eci_positions' =
       satellite_orbit_eci(sat_orbit_eci_positions, gps_list)
  /\ StageDone(5, 0)
  /\ UNCHANGED << gps_list, sat_eci_positions, sat_ecef_positions,
                  solver, oob_read, emitted >>

\* A solver that wants more than MIN_SATS satellites.
EstimatedAboveMin(glist, times, ill) ==
  { ti \in 0..(Len(times) - 1) :
      /\ Cardinality(Gather(pseudorange_count, glist, times[ti + 1])) > MIN_SATS
      /\ times[ti + 1] \notin ill }

\* A solver that gives up at the first singular epoch.
EstimatedUntilSingular(glist, times, ill) ==
  { ti \in 0..(Len(times) - 1) :
      /\ Cardinality(Gather(pseudorange_count, glist, times[ti + 1])) >= MIN_SATS
      /\ \A tj \in 0..ti : times[tj + 1] \notin ill }

\* The epochs of the list that get an estimate: at least MIN_SATS gathered
\* and no iteration with a singular normal matrix.
Estimated(glist, times, ill) ==
  { ti \in 0..(Len(times) - 1) :
      /\ Cardinality(Gather(pseudorange_count, glist, times[ti + 1])) >= MIN_SATS
      /\ times[ti + 1] \notin ill }

\* Step 7, estimate_receiver_positions: -1 when malloc fails; otherwise
\* the epochs are collected, each epoch's measurements gathered, and the
\* estimate of an epoch stored at its index in the list.  Which normal
\* matrices are ill-conditioned depends on the geometry and is an input
\* here, except that satellites all at the origin give a zero pivot.
Solve ==
  /\ pc = "solve"
  /\ \E allocated \in BOOLEAN :
       IF allocated
       THEN LET times == collect_unique_pr_times_ms(pseudorange_count, gps_list)
                T == { times[i] : i \in 1..Len(times) }
                g(t) == Gather(pseudorange_count, gps_list, t)
                meas(t) == Measurements(gps_list, sat_ecef_positions, g(t))
                fix(ti) == Fix(meas(times[ti + 1]))
            IN \E ill \in SUBSET { t \in T : Cardinality(g(t)) >= MIN_SATS } :
                 /\ \A t \in T : Cardinality(g(t)) >= MIN_SATS /\ AllAtOrigin(meas(t))
                                    => t \in ill
                 /\ all_times' = times
                 /\ n_times' = Len(times)
                 /\ gathered' = [t \in T |-> g(t)]
                 /\ singular' = ill
                 /\ solved' = { times[ti + 1] : ti \in Estimated(gps_list, times, ill) }
                 /\ estimated_positions_ecef' =
                      [ti \in EpochIdx |->
                         IF ti \in Estimated(gps_list, times, ill) THEN fix(ti)
                         ELSE estimated_positions_ecef[ti]]
                 /\ beyond_x' = Estimated(gps_list, times, ill) \ EpochIdx
                 /\ latlonalt_positions' =
                      [ti \in EpochIdx |->
                         IF ti \in Estimated(gps_list, times, ill)
                         THEN [ latlonalt_positions[ti] EXCEPT
                                  !.lat = ecef_to_geodetic(fix(ti)).lat,
                                  !.lon = ecef_to_geodetic(fix(ti)).lon ]
                         ELSE latlonalt_positions[ti]]
                 /\ StageDone(6, 0)
       ELSE /\ UNCHANGED solver
            /\ StageDone(6, -1)
  /\ UNCHANGED << gps_list, sat_eci_positions, sat_ecef_positions,
                  sat_orbit_eci_positions, oob_read, emitted >>

\* Step 8, the write_* calls: a failed write is logged only; return 0.
Emit ==
  /\ pc = "emit"
  /\ emitted' = TRUE
  /\ StageDone(7, 0)
  /\ UNCHANGED << gps_list, sat_eci_positions, sat_ecef_positions,
                  sat_orbit_eci_positions, solver, oob_read >>

NextStages ==
  \/ Store1019
  \/ Store1074
  \/ Store1002
  \/ StoreNull
  \/ ReadReturns
  \/ Sort
  \/ Eci
  \/ Ecef
  \/ Orbit
  \/ Solve
  \/ Emit

SpecStages == InitStages /\ [][NextStages]_vars

\* ================================================================== claims
\* The stage at position n of StageOrder has returned.
Returned(n) == Len(status) >= n
\* The ephemeris records held for PRN p.
HeldEphs(p) == { i \in EphIdx : i < eph_history[p].count }
\* The series entry k of g carries the TOE and the six elements of eph.
SeriesHolds(g, k, eph) ==
  /\ g.times_of_ephemeris[k] = eph.gps_toe
  /\ g.eccentricities[k] = eph.eccentricity
  /\ g.inclinations[k] = eph.inclination
  /\ g.mean_anomalies[k] = eph.mean_anomaly
  /\ g.semi_major_axes[k] = eph.semi_major_axis
  /\ g.right_ascension_of_ascending_node[k] =
       eph.right_ascension_of_ascending_node
  /\ g.argument_of_periapsis[k] = eph.argument_of_periapsis

\* C1: after sort_satellites has completed, for every PRN p and every series
\* index k whose observation time is non-zero, if p's history holds an
\* ephemeris with TOE <= the observation time (in seconds of week), then
\* position k of gps_list[p] carries the TOE and the six elements of a held
\* ephemeris whose TOE is the largest such TOE.
C1_BestEphemerisAtEachObservation ==
  (Returned(2) /\ status[2] = 0) =>
    \A p \in PRNS, k \in EpochIdx :
      gps_list[p].times_of_pseudorange[k] # 0 =>
        LET t == NormalizeObsTime(gps_list[p].times_of_pseudorange[k])
            cands == { i \in HeldEphs(p) : eph_history[p].eph[i].gps_toe <= t }
        IN cands # {} =>
             \E i \in cands :
               /\ \A j \in cands : eph_history[p].eph[j].gps_toe
                                     <= eph_history[p].eph[i].gps_toe
               /\ SeriesHolds(gps_list[p], k, eph_history[p].eph[i])

\* C2: after estimate_receiver_positions, every (PRN, k) pair in the gather
\* of an epoch has a computed satellite ECEF position and a positive
\* pseudorange.
C2_GatherOnlyAvailable ==
  (Returned(6) /\ status[6] = 0) =>
    \A t \in DOMAIN gathered : \A pk \in gathered[t] :
      /\ sat_ecef_positions[pk[1]][pk[2]] # NoPos
      /\ gps_list[pk[1]].pseudoranges[pk[2]] > 0

\* The TOE read at slot i of PRN p's history in this run.
ToeRead(p, i) == EphAt(eph_history[p], i, oob_read).gps_toe
\* The scanned slots of p whose TOE is the largest TOE <= t.
TieSet(p, t) ==
  LET S == { i \in 0..(eph_history[p].count - 1) : ToeRead(p, i) <= t }
  IN { i \in S : \A j \in S : ToeRead(p, j) <= ToeRead(p, i) }
MinOf(S) == CHOOSE x \in S : \A y \in S : x <= y
MaxOf(S) == CHOOSE x \in S : \A y \in S : x >= y
\* The ECI sample pos was propagated from the elements of eph.
PropagatedFrom(pos, eph) ==
  /\ pos.a = eph.semi_major_axis
  /\ pos.e = eph.eccentricity
  /\ pos.i = eph.inclination
  /\ pos.Omega = eph.right_ascension_of_ascending_node
  /\ pos.omega = eph.argument_of_periapsis
  /\ pos.M0 = eph.mean_anomaly

\* C3 (as claimed): among the ephemerides of a PRN that share the selected
\* TOE, the first-arrived (lowest history index) is the one selected, by the
\* series builder for each observation time and by the ECI propagator for
\* each sample it computes.
C3_TieGoesToFirstArrived ==
  Returned(3) =>
    \A p \in PRNS, k \in EpochIdx :
      LET t_ms == gps_list[p].times_of_pseudorange[k]
      IN /\ (t_ms # 0 /\ TieSet(p, t_ms) # {}) =>
              find_closest_eph_idx(eph_history[p], t_ms, oob_read)
                = MinOf(TieSet(p, t_ms))
         /\ sat_eci_positions[p][k] # NoPos =>
              /\ TieSet(p, NormalizeObsTime(t_ms)) # {}
              /\ PropagatedFrom(sat_eci_positions[p][k],
                   EphAt(eph_history[p],
                         MinOf(TieSet(p, NormalizeObsTime(t_ms))), oob_read))

\* C3 (amended): among the scanned ephemerides of a PRN that share the
\* selected TOE, the last-arrived (highest history index) is the one
\* selected, by the series builder for each observation time and by the ECI
\* propagator for each sample it computes.
C3_TieGoesToLastArrived ==
  Returned(3) =>
    \A p \in PRNS, k \in EpochIdx :
      LET t_ms == gps_list[p].times_of_pseudorange[k]
      IN /\ (t_ms # 0 /\ TieSet(p, t_ms) # {}) =>
              find_closest_eph_idx(eph_history[p], t_ms, oob_read)
                = MaxOf(TieSet(p, t_ms))
         /\ sat_eci_positions[p][k] # NoPos =>
              /\ TieSet(p, NormalizeObsTime(t_ms)) # {}
              /\ PropagatedFrom(sat_eci_positions[p][k],
                   EphAt(eph_history[p],
                         MaxOf(TieSet(p, NormalizeObsTime(t_ms))), oob_read))

\* A sample was propagated for an observation whose selected TOE is shared
\* by two held ephemerides of different elements.
C3_Witness ==
  /\ Returned(3)
  /\ \E p \in PRNS, k \in EpochIdx :
       /\ sat_eci_positions[p][k] # NoPos
       /\ eph_history[p].count <= MAX_EPH_HISTORY
       /\ LET T == TieSet(p, NormalizeObsTime(gps_list[p].times_of_pseudorange[k]))
          IN /\ Cardinality(T) >= 2
             /\ eph_history[p].eph[MinOf(T)] # eph_history[p].eph[MaxOf(T)]

\* C4: once an observation message (1074 or 1002) has been consumed by the
\* reader, observation_type records its family: 4 for 1074, 1 for 1002.
C4_TypeFixedByFirstObservation ==
  /\ (line.kind = "msg" /\ line.DF002 = 1074) => observation_type \in {1, 4}
  /\ (line.kind = "msg" /\ line.DF002 = 1002) => observation_type \in {1, 4}

\* C5: when file_input_mode has returned after the read stage was started,
\* it has run the stages up to the solver and returns 0.
C5_ReadToEndThenRunsAndReturnsZero ==
  (pc = "done" /\ stages # << >>) => (ret = 0 /\ Len(stages) >= 6)

\* The PRNs in 1..MAX_SAT that the line lists under the given key.
Listed(tokens) == { tokens[i] : i \in 1..Len(tokens) } \cap PRNS
ListedSvs(sats) == { sats[i].DF009 : i \in 1..Len(sats) } \cap PRNS

\* C6: each consumed message line is dispatched on DF002: a 1019 line adds a
\* record to the ephemeris history of its PRN, a 1074 line adds one to the
\* MSM4 history of each PRN it lists, a 1002 line adds one to the legacy
\* history of each PRN it lists, and a line of any other type changes no
\* table or counter and leaves the reader running.
C6_DispatchOnMessageType ==
  [][ (nread' = nread + 1 /\ line'.kind = "msg" /\ line'.DF002 # Absent) =>
        /\ (line'.DF002 = 1019 /\ line'.DF009 \in PRNS) =>
             eph_history'[line'.DF009].count
               = eph_history[line'.DF009].count + 1
        /\ line'.DF002 = 1074 =>
             \A q \in Listed(line'.PRN) : msm4_count'[q] = msm4_count[q] + 1
        /\ line'.DF002 = 1002 =>
             \A q \in ListedSvs(line'.sats) : msm1_count'[q] = msm1_count[q] + 1
        /\ line'.DF002 \notin {1019, 1074, 1002} =>
             (tables' = tables /\ pc' = pc) ]_vars

C8_CountersMatchRecordsHeld ==
  \A p \in PRNS :
    /\ eph_history[p].count <= MAX_EPH_HISTORY
    /\ msm4_count[p] <= MAX_EPOCHS
    /\ msm1_count[p] <= MAX_EPOCHS
    /\ eph_history[p].count
         = Cardinality({ i \in EphIdx : eph_history[p].eph[i] # ZeroEph })
    /\ msm4_count[p]
         = Cardinality({ k \in EpochIdx : msm4_history[p][k] # ZeroMsm4 })
    /\ msm1_count[p]
         = Cardinality({ k \in EpochIdx : msm1_history[p][k] # ZeroMsm1 })

\* The PRNs in 1..MAX_SAT listed by a decoded record.
ListedIn(prns, n) == { prns[i] : i \in { j \in SatIdx : j < n } } \cap PRNS

\* C9: a store_msm4 (store_msm1) call leaves every slot of a PRN whose
\* history already holds MAX_EPOCHS records as it was, writes the record
\* into the next free slot of every listed PRN that has room, and leaves
\* the store ready for the next message.
C9_FullHistoryDropsRecord ==
  [][ /\ (nread' = nread + 1 /\ line'.DF002 = 1074) =>
          /\ \A p \in PRNS :
               IF msm4_count[p] >= MAX_EPOCHS
               THEN msm4_history'[p] = msm4_history[p]
               ELSE p \in ListedIn(msm4'.prn, msm4'.n_sat) =>
                      msm4_history'[p][msm4_count[p]] = msm4'
          /\ pc' = pc
      /\ (nread' = nread + 1 /\ line'.DF002 = 1002) =>
          /\ \A p \in PRNS :
               IF msm1_count[p] >= MAX_EPOCHS
               THEN msm1_history'[p] = msm1_history[p]
               ELSE p \in ListedIn(msm1'.svs, msm1'.num_satellites) =>
                      msm1_history'[p][msm1_count[p]] = msm1'
          /\ pc' = pc ]_vars

\* The last message listed a PRN whose history was full and another PRN
\* that had room: the first kept its records, the second received this one.
C9_Witness ==
  /\ line.DF002 = 1074
  /\ \E p, q \in ListedIn(msm4.prn, msm4.n_sat) :
       /\ msm4_count[p] > MAX_EPOCHS
       /\ \A k \in EpochIdx : msm4_history[p][k] # msm4
       /\ msm4_count[q] <= MAX_EPOCHS
       /\ msm4_history[q][msm4_count[q] - 1] = msm4

\* The "1C" cells of a line, in input order.
L1Cells(line1074) == SelectSeq(line1074.cells, LAMBDA c : c.CELLSIG = "1C")

\* C10: after parse_rtcm_1074 of a line, n_cell is the number of "1C" cells
\* of the line; retained cell i < n_cell has cell_sig 1 and the CELLPRN and
\* DF400..DF403 of the i-th "1C" cell in input order; no other cell is
\* retained.
C10_OnlyL1CellsRetainedInOrder ==
  (line.kind = "msg" /\ line.DF002 = 1074) =>
    /\ msm4.n_cell = Len(L1Cells(line))
    /\ \A i \in CellIdx :
         IF i < msm4.n_cell
         THEN /\ msm4.cell_sig[i] = 1
              /\ msm4.cell_prn[i] = L1Cells(line)[i + 1].CELLPRN
              /\ msm4.pseudorange_fine[i] = L1Cells(line)[i + 1].DF400
              /\ msm4.phase_range[i] = L1Cells(line)[i + 1].DF401
              /\ msm4.lock_time[i] = L1Cells(line)[i + 1].DF402
              /\ msm4.cnr[i] = L1Cells(line)[i + 1].DF403
         ELSE /\ msm4.cell_sig[i] = 0
              /\ msm4.cell_prn[i] = 0
              /\ msm4.pseudorange_fine[i] = 0

\* A line whose first cell is not "1C" and that holds two "1C" cells of
\* different satellites was decoded.
C10_Witness ==
  /\ line.kind = "msg" /\ line.DF002 = 1074
  /\ Len(line.cells) = 3
  /\ line.cells[1].CELLSIG # "1C"
  /\ msm4.n_cell = 2
  /\ msm4.cell_prn[0] # msm4.cell_prn[1]

\* The satellites with an observation at time t in their series.
SatsAt(t) ==
  { p \in PRNS : \E k \in EpochIdx : gps_list[p].times_of_pseudorange[k] = t }
\* estimate_receiver_positions has just returned 0.
SolveStep == pc = "solve" /\ Len(status') = 6 /\ status'[6] = 0
\* The step stored an ECEF estimate at epoch index ti.
WroteEcef(ti) ==
  IF ti \in EpochIdx THEN estimated_positions_ecef'[ti] # estimated_positions_ecef[ti]
  ELSE ti \in beyond_x'

\* C11: for every epoch index ti of the unique-epoch list, the solver
\* stores a receiver position at ti if and only if at least 4 satellites
\* have an observation at that epoch and no iteration met a singular
\* normal matrix; an epoch with 3 or fewer satellites leaves
\* estimated_positions_ecef and latlonalt_positions at ti as they were.
C11_PositionIffFourSatellitesAndRegular ==
  [][ SolveStep =>
        \A ti \in 0..(Len(all_times') - 1) :
          LET t == all_times'[ti + 1]
          IN /\ WroteEcef(ti) <=>
                  (Cardinality(SatsAt(t)) >= 4 /\ t \notin singular')
             /\ (Cardinality(SatsAt(t)) <= 3 /\ ti \in EpochIdx) =>
                  /\ estimated_positions_ecef'[ti] = estimated_positions_ecef[ti]
                  /\ latlonalt_positions'[ti] = latlonalt_positions[ti] ]_vars

\* The solver returned with one epoch of exactly 4 satellites estimated and
\* one epoch of 3 satellites left alone.
C11_Witness ==
  /\ Returned(6) /\ status[6] = 0
  /\ \E ti, tj \in EpochIdx :
       /\ ti < Len(all_times) /\ tj < Len(all_times)
       /\ Cardinality(SatsAt(all_times[ti + 1])) = 4
       /\ estimated_positions_ecef[ti] # NoFix
       /\ Cardinality(SatsAt(all_times[tj + 1])) = 3
       /\ estimated_positions_ecef[tj] = NoFix
       /\ latlonalt_positions[tj] = NoGeo

\* C12: an epoch whose normal matrix has a pivot of absolute value
\* <= 1e-18 gets no ECEF and no geodetic result at its index, and every
\* later epoch of the list is still processed: it is gathered, and it
\* gets its estimate when it has 4 satellites and is not singular itself.
C12_SingularEpochSkippedLaterEpochsProcessed ==
  [][ SolveStep =>
        \A ti \in 0..(Len(all_times') - 1) :
          all_times'[ti + 1] \in singular' =>
            /\ ~WroteEcef(ti)
            /\ ti \in EpochIdx =>
                 latlonalt_positions'[ti] = latlonalt_positions[ti]
            /\ \A tj \in (ti + 1)..(Len(all_times') - 1) :
                 LET t == all_times'[tj + 1]
                 IN /\ t \in DOMAIN gathered'
                    /\ { pk[1] : pk \in gathered'[t] } = SatsAt(t)
                    /\ (Cardinality(SatsAt(t)) >= 4 /\ t \notin singular')
                         => WroteEcef(tj) ]_vars

\* The solver returned after a singular epoch followed by an epoch that
\* was estimated.
C12_Witness ==
  /\ Returned(6) /\ status[6] = 0
  /\ \E ti, tj \in EpochIdx :
       /\ ti < tj /\ tj < Len(all_times)
       /\ all_times[ti + 1] \in singular
       /\ estimated_positions_ecef[ti] = NoFix
       /\ latlonalt_positions[ti] = NoGeo
       /\ estimated_positions_ecef[tj] # NoFix

\* C13: at every epoch index where the solver has stored an ECEF estimate,
\* latlonalt_positions holds at the same index the latitude, longitude and
\* altitude that ecef_to_geodetic returns for that estimate.
C13_GeodeticTripleStoredWithEstimate ==
  (Returned(6) /\ status[6] = 0) =>
    \A ti \in EpochIdx :
      estimated_positions_ecef[ti] # NoFix =>
        latlonalt_positions[ti] = ecef_to_geodetic(estimated_positions_ecef[ti])

\* The non-zero observation times of the series, over all PRNs.
ObservationTimes ==
  { gps_list[p].times_of_pseudorange[k] : p \in PRNS, k \in EpochIdx } \ {0}

\* C14: the list collect_unique_pr_times_ms returns is strictly ascending,
\* holds no zero, and each of its elements is the times_of_pseudorange
\* value of some (PRN, k).
C14_EpochListAscendingFromObservations ==
  (Returned(6) /\ status[6] = 0) =>
    /\ n_times = Len(all_times)
    /\ \A i, j \in 1..Len(all_times) : i < j => all_times[i] < all_times[j]
    /\ \A i \in 1..Len(all_times) :
         /\ all_times[i] # 0
         /\ \E p \in PRNS, k \in EpochIdx :
              gps_list[p].times_of_pseudorange[k] = all_times[i]

\* The solver returned a list of two epochs that the first PRN observed
\* in the opposite order.
C14_Witness ==
  /\ Returned(6) /\ status[6] = 0
  /\ Len(all_times) = 2
  /\ \E p \in PRNS :
       /\ gps_list[p].times_of_pseudorange[0] = all_times[2]
       /\ gps_list[p].times_of_pseudorange[1] = all_times[1]
       /\ \A q \in PRNS : q < p => gps_list[q].times_of_pseudorange[0] = 0

\* The n smallest elements of a set of times.
Earliest(S, n) ==
  { t \in S : Cardinality({ u \in S : u < t }) < n }

\* C15: when there are at most MAX_UNIQUE_EPOCHS distinct non-zero
\* observation times across all PRNs, the unique-epoch list contains every
\* one of them; when there are more, the list is the MAX_UNIQUE_EPOCHS
\* earliest of them.
C15_EpochListCompleteUpToCapacity ==
  (Returned(6) /\ status[6] = 0) =>
    { all_times[i] : i \in 1..Len(all_times) } =
      IF Cardinality(ObservationTimes) <= MAX_UNIQUE_EPOCHS
      THEN ObservationTimes
      ELSE Earliest(ObservationTimes, MAX_UNIQUE_EPOCHS)

\* A 1074 or 1002 line whose counts exceed the capacity of the record.
Oversize(l) ==
  /\ l.kind = "msg"
  /\ \/ l.DF002 = 1074 /\ (l.NSat > MAX_SAT \/ l.NCell > MAX_CELL)
     \/ l.DF002 = 1002 /\ l.DF006 > MAX_SAT

\* C16: a 1074 or 1002 line whose satellite or cell count exceeds the
\* capacity of the record is skipped: decoding it writes no element
\* outside the record's arrays and no history changes.
C16_OversizeLineSkipped ==
  [][ (nread' = nread + 1 /\ Oversize(line')) =>
        /\ overrun' = {}
        /\ UNCHANGED << msm4_count, msm4_history, msm1_count, msm1_history >> ]_vars

\* C17: when observation_type is neither 1 nor 4 at the call of
\* sort_satellites, sort_satellites returns non-zero and the driver returns
\* non-zero at once: no propagation stage and no solver is started and
\* their tables stay as they were.
C17_UnknownObservationTypeAborts ==
  (observation_type \notin {1, 4} /\ Returned(2)) =>
    /\ status[2] # 0
    /\ pc = "done" /\ ret = 1
    /\ stages = << "read", "sort" >>
    /\ sat_eci_positions = ZeroPositions
    /\ sat_ecef_positions = ZeroPositions
    /\ sat_orbit_eci_positions = [prn \in PRNS |-> NoOrbit]
    /\ n_times = 0 /\ all_times = << >>
    /\ ~emitted

\* sort_satellites has returned on stored ephemerides and observations
\* with observation_type 0.
C17_Witness ==
  /\ observation_type = 0
  /\ Returned(2)
  /\ \E p \in PRNS : msm4_count[p] > 0 /\ eph_history[p].count > 0

\* The derived element d is the raw value v under the scaling written s
\* (1: v PI, 2: v 2^-33, 3: v v).
Scaled(d, v, s) == IF v = 0 THEN d = 0 ELSE d = 10 * v + s
\* Raw attribute a holds the value of token f, or zero when f is absent.
RawOf(a, f) == IF f = Absent THEN a = 0 ELSE a = f

\* C19: the record parse_rtcm_1019 yields has mean_anomaly = DF088 PI,
\* right_ascension_of_ascending_node = DF095 PI, inclination = DF097 PI,
\* argument_of_periapsis = DF099 PI, eccentricity = DF090 2^-33 and
\* semi_major_axis = DF092^2; a field absent from the line leaves its raw
\* attribute at zero.
C19_EphemerisScalings ==
  (line.kind = "msg" /\ line.DF002 = 1019 /\ line.DF009 \in PRNS) =>
    LET eph == eph_table[line.DF009]
    IN /\ RawOf(eph.gps_m0, line.DF088)
       /\ RawOf(eph.gps_eccentricity, line.DF090)
       /\ RawOf(eph.gps_sqrt_a, line.DF092)
       /\ RawOf(eph.gps_omega0, line.DF095)
       /\ RawOf(eph.gps_i0, line.DF097)
       /\ RawOf(eph.gps_omega, line.DF099)
       /\ Scaled(eph.mean_anomaly, eph.gps_m0, 1)
       /\ Scaled(eph.right_ascension_of_ascending_node, eph.gps_omega0, 1)
       /\ Scaled(eph.inclination, eph.gps_i0, 1)
       /\ Scaled(eph.argument_of_periapsis, eph.gps_omega, 1)
       /\ Scaled(eph.eccentricity, eph.gps_eccentricity, 2)
       /\ Scaled(eph.semi_major_axis, eph.gps_sqrt_a, 3)

\* A 1019 line without DF090 and DF097 was decoded and stored: the other
\* elements are scaled, these two are zero.
C19_Witness ==
  /\ line.kind = "msg" /\ line.DF002 = 1019 /\ line.DF009 \in PRNS
  /\ line.DF090 = Absent /\ line.DF097 = Absent /\ line.DF088 # Absent
  /\ eph_table[line.DF009].mean_anomaly # 0
  /\ eph_table[line.DF009].eccentricity = 0
  /\ eph_table[line.DF009].inclination = 0

\* First index i < n with list[i] = p, or NoIdx.
RECURSIVE IndexOf(_, _, _, _)
IndexOf(list, n, p, i) ==
  IF i >= n THEN NoIdx
  ELSE IF list[i] = p THEN i ELSE IndexOf(list, n, p, i + 1)

\* C20: for every stored 1074 message and every PRN p listed in it with a
\* "1C" cell, the pseudorange sort_satellites places in
\* gps_list[p].pseudoranges[k] is the one recomposed from p's own DF397 and
\* DF398 and the DF400 of p's own "1C" cell.
C20_PseudorangeFromOwnComponents ==
  (observation_type = 4 /\ Returned(2) /\ status[2] = 0) =>
    \A p \in PRNS : \A k \in EpochIdx :
      k < msm4_count[p] =>
        LET r == msm4_history[p][k]
            j == IndexOf(r.prn, r.n_sat, p, 0)
            c == IndexOf(r.cell_prn, r.n_cell, p, 0)
        IN (j # NoIdx /\ c # NoIdx) =>
             gps_list[p].pseudoranges[k] =
               SPEED_OF_LIGHT * r.pseudorange_integer[j]
                 + r.pseudorange_mod_1s[j] + r.pseudorange_fine[c]

\* The step consumed a 1019 line for PRN p.
Stored1019(p) ==
  nread' = nread + 1 /\ line'.DF002 = 1019 /\ line'.DF009 = p

\* C21: a store_ephemeris call for PRN p appends the record at the next
\* free entry of eph_history[p] when there is room, whatever its TOE, and
\* changes no entry already held; no step changes an entry held, and a
\* step that stores nothing for p leaves the entries of p as they were.
C21_EphemerisHistoryAppendOnly ==
  [][ \A p \in PRNS :
        LET h == eph_history[p]
            h2 == eph_history'[p]
        IN /\ \A i \in HeldEphs(p) : i \in EphIdx => h2.eph[i] = h.eph[i]
           /\ IF Stored1019(p) /\ h.count < MAX_EPH_HISTORY
              THEN /\ h2.eph[h.count].satellite_id = p
                   /\ h2.eph[h.count].gps_toe = line'.DF093
                   /\ h2.eph[h.count].gps_m0 = line'.DF088
                   /\ \A i \in EphIdx : i # h.count => h2.eph[i] = h.eph[i]
              ELSE h2.eph = h.eph ]_vars

\* Two records of equal TOE and different elements are held for one PRN,
\* in arrival order.
C21_Witness ==
  \E p \in PRNS :
    /\ eph_history[p].count = 2
    /\ eph_history[p].eph[0].gps_toe = eph_history[p].eph[1].gps_toe
    /\ eph_history[p].eph[0].gps_m0 < eph_history[p].eph[1].gps_m0

\* The step consumed a 1074 line.
Stored1074 == nread' = nread + 1 /\ line'.DF002 = 1074

\* Every entry of the PRN list of a decoded record, in or out of 1..MAX_SAT.
Entries(prns, n) == { prns[i] : i \in { j \in SatIdx : j < n } }

\* C22 as stated: a store_msm4 call puts the record at index msm4_count[p]
\* of the history of every listed PRN p in 1..MAX_SAT and increments
\* msm4_count[p] by one, and leaves the history and the counter of every PRN
\* not listed as they were.
C22_StoreMsm4AppendsForEveryListed ==
  [][ Stored1074 =>
        \A p \in PRNS :
          IF p \in ListedIn(msm4'.prn, msm4'.n_sat)
          THEN /\ msm4_count[p] \in EpochIdx
               /\ msm4_history'[p][msm4_count[p]] = msm4'
               /\ msm4_count'[p] = msm4_count[p] + 1
          ELSE /\ msm4_history'[p] = msm4_history[p]
               /\ msm4_count'[p] = msm4_count[p] ]_vars

\* C22: a store_msm4 call, for every listed PRN p in 1..MAX_SAT whose
\* history has room (msm4_count[p] < MAX_EPOCHS), puts the whole record at
\* index msm4_count[p], changes no other slot of p and increments
\* msm4_count[p] by one; it changes no slot of a listed PRN whose history is
\* full; it skips entries outside 1..MAX_SAT and leaves the history and the
\* counter of every PRN not listed as they were.
C22_StoreMsm4AppendsWhereRoom ==
  [][ Stored1074 =>
        \A p \in PRNS :
          IF p \in ListedIn(msm4'.prn, msm4'.n_sat)
          THEN IF msm4_count[p] < MAX_EPOCHS
               THEN /\ msm4_history'[p] =
                         [msm4_history[p] EXCEPT ![msm4_count[p]] = msm4']
                    /\ msm4_count'[p] = msm4_count[p] + 1
               ELSE msm4_history'[p] = msm4_history[p]
          ELSE /\ msm4_history'[p] = msm4_history[p]
               /\ msm4_count'[p] = msm4_count[p] ]_vars

\* The last message listed an entry outside 1..MAX_SAT and a PRN that
\* received the record in its second slot, while a PRN it did not list
\* keeps the record it held.
C22_Witness ==
  /\ line.DF002 = 1074
  /\ 0 \in Entries(msm4.prn, msm4.n_sat)
  /\ \E p \in ListedIn(msm4.prn, msm4.n_sat) :
       /\ msm4_count[p] = 2
       /\ msm4_history[p][1] = msm4
       /\ msm4_history[p][0] # msm4
       /\ msm4_history[p][0].n_sat > 0
  /\ \E q \in PRNS \ ListedIn(msm4.prn, msm4.n_sat) :
       /\ msm4_count[q] = 1
       /\ msm4_history[q][0].n_sat > 0

\* The step called store_ephemeris on a null pointer: it left the load
\* position and the lines consumed as they were and set the status.
StoredNull ==
  pc = "load" /\ pc' = "load" /\ nread' = nread /\ store_status' # store_status

\* C23: a store_ephemeris call returns -1 for a NULL record and -2 for a
\* record whose satellite_id is outside 1..MAX_SAT, and in both cases leaves
\* eph_history, eph_table and eph_available as they were; for a
\* satellite_id in 1..MAX_SAT it returns 0.
C23_StoreEphemerisStatus ==
  [][ /\ StoredNull =>
           /\ store_status' = -1
           /\ UNCHANGED << eph_history, eph_table, eph_available >>
      /\ \A p \in 0..(MAX_SAT + 1) :
           Stored1019(p) =>
             IF p \in PRNS
             THEN store_status' = 0
             ELSE /\ store_status' = -2
                  /\ UNCHANGED << eph_history, eph_table, eph_available >> ]_vars

\* A record for a PRN outside 1..MAX_SAT was refused, then a null pointer
\* was refused, and the ephemeris stored before both is still the one held.
C23_Witness ==
  /\ store_status = -1
  /\ line.DF002 = 1019 /\ line.DF009 = MAX_SAT + 1
  /\ \E p \in PRNS :
       /\ eph_available[p]
       /\ eph_history[p].count = 1
       /\ eph_table[p] = eph_history[p].eph[0]
       /\ eph_table[p].satellite_id = p

\* The TOEs a scan of the history of PRN p can select: those of the
\* records held, and what a read past the array yields.
SelectableToes(p) ==
  { eph_history[p].eph[i].gps_toe : i \in HeldEphs(p) }
    \cup { e.gps_toe : e \in OobEphs }

\* C24: for every (PRN, k) that has an ECEF sample, with t the observation
\* time of the series entry and s its seconds of week (t / 1000 when
\* t > 604800, t itself otherwise), the ECI sample was propagated to s from
\* the TOE of an ephemeris of the PRN, the ECEF rotation was taken at s,
\* and the cached t_ms is s in milliseconds.
C24_SameSecondsOfWeekInEciAndEcef ==
  \A p \in PRNS : \A k \in EpochIdx :
    sat_ecef_positions[p][k] # NoPos =>
      LET t == gps_list[p].times_of_pseudorange[k]
          s == IF t > SecondsPerWeek THEN t \div MsPerSecond ELSE t
      IN /\ \E toe \in SelectableToes(p) :
              sat_eci_positions[p][k].dt = s - toe
         /\ sat_ecef_positions[p][k].theta_t = s
         /\ sat_ecef_positions[p][k].t_ms = s * MsPerSecond

\* The orbit trace swept from the elements of eph.
OrbitOf(eph) ==
  [ a |-> eph.semi_major_axis, e |-> eph.eccentricity, i |-> eph.inclination,
    omega |-> eph.argument_of_periapsis,
    Omega |-> eph.right_ascension_of_ascending_node ]

\* C25: once satellite_orbit_eci has returned, every PRN with at least one
\* stored ephemeris has an orbit trace, swept from the elements of its
\* first-arrived ephemeris, and no other PRN has one.
C25_OrbitTraceFromFirstEphemeris ==
  Returned(5) =>
    \A p \in PRNS :
      IF eph_history[p].count > 0
      THEN sat_orbit_eci_positions[p] = OrbitOf(eph_history[p].eph[0])
      ELSE sat_orbit_eci_positions[p] = NoOrbit

\* The records of PRN p whose TOE no earlier-arrived record of p carries.
FirstOfToe(p) ==
  { i \in HeldEphs(p) :
      \A j \in HeldEphs(p) :
        j < i => eph_history[p].eph[j].gps_toe # eph_history[p].eph[i].gps_toe }

\* C26: once sort_satellites has returned 0, the ephemeris series of every
\* PRN whose history holds all its records carries, in order of first
\* arrival, the first record of each distinct TOE of the history, one
\* entry per distinct TOE, and nothing after them.
C26_SeriesUniqueByToe ==
  (Returned(2) /\ status[2] = 0) =>
    \A p \in PRNS :
      eph_history[p].count <= MAX_EPH_HISTORY =>
        /\ \A i \in FirstOfToe(p) :
             LET k == Cardinality({ j \in FirstOfToe(p) : j < i })
             IN k \in EpochIdx
                  => SeriesHolds(gps_list[p], k, eph_history[p].eph[i])
        /\ \A k \in EpochIdx :
             k >= Cardinality(FirstOfToe(p))
               => gps_list[p].times_of_ephemeris[k] = 0

\* The stages of file_input_mode after the read, and those after the sort.
AfterRead == { "sort", "eci", "ecef", "orbit", "solve", "emit" }
AfterSort == { "eci", "ecef", "orbit", "solve", "emit" }

\* C27: no stage after the read changes eph_history, msm4_history or
\* msm1_history (or their counters); no stage after sort_satellites changes
\* gps_list; each position table is changed by its own stage only; the
\* solver changes neither sat_eci_positions nor sat_ecef_positions; the
\* emit step changes no table.
C27_TablesWrittenByOneStage ==
  [][ /\ pc \in AfterRead => UNCHANGED tables
      /\ pc \in AfterSort => UNCHANGED gps_list
      /\ pc # "eci" => UNCHANGED sat_eci_positions
      /\ pc # "ecef" => UNCHANGED sat_ecef_positions
      /\ pc # "orbit" => UNCHANGED sat_orbit_eci_positions
      /\ pc # "solve" =>
           UNCHANGED << estimated_positions_ecef, latlonalt_positions, n_times >>
      /\ pc = "emit" =>
           UNCHANGED << tables, gps_list, sat_eci_positions, sat_ecef_positions,
                       sat_orbit_eci_positions, estimated_positions_ecef,
                       latlonalt_positions, n_times >> ]_vars

\* A run went through every stage with every table filled: histories,
\* series, ECI and ECEF samples, an orbit trace and a receiver position.
C27_Witness ==
  /\ emitted
  /\ pc = "done"
  /\ solved # {}
  /\ \E p \in PRNS :
       /\ eph_history[p].count > 0
       /\ msm4_count[p] > 0
       /\ gps_list[p].times_of_pseudorange[0] # 0
       /\ sat_eci_positions[p][0] # NoPos
       /\ sat_ecef_positions[p][0] # NoPos
       /\ sat_orbit_eci_positions[p] # NoOrbit

\* C28: the record parse_rtcm_1019 yields holds, in each attribute, the
\* value of the field documented for it: satellite_id DF009, gps_toe DF093,
\* gps_wn and week_number the week number DF076, gps_fit_interval the fit
\* interval DF137, and the six raw elements DF088..DF099.
C28_AttributesHoldDocumentedFields ==
  (line.kind = "msg" /\ line.DF002 = 1019 /\ line.DF009 \in PRNS) =>
    LET eph == eph_table[line.DF009]
    IN /\ eph.satellite_id = line.DF009
       /\ RawOf(eph.gps_toe, line.DF093)
       /\ RawOf(eph.gps_wn, line.DF076)
       /\ RawOf(eph.week_number, line.DF076)
       /\ RawOf(eph.gps_fit_interval, line.DF137)
       /\ RawOf(eph.gps_m0, line.DF088)
       /\ RawOf(eph.gps_sqrt_a, line.DF092)
       /\ RawOf(eph.gps_omega0, line.DF095)
       /\ RawOf(eph.gps_omega, line.DF099)

C30_EveryCallStartsFromEmptyTables ==
  pc = "connect" =>
    /\ eph_history = [prn \in PRNS |-> ZeroHist]
    /\ eph_table = [prn \in PRNS |-> ZeroEph]
    /\ eph_available = [prn \in PRNS |-> FALSE]
    /\ msm4_count = [prn \in PRNS |-> 0]
    /\ msm1_count = [prn \in PRNS |-> 0]
    /\ gps_list = [prn \in PRNS |-> ZeroSat]
    /\ sat_eci_positions = ZeroPositions
    /\ sat_ecef_positions = ZeroPositions
    /\ estimated_positions_ecef = [ti \in EpochIdx |-> NoFix]
    /\ n_times = 0

====
